---- MODULE Spec2Model ----
(***************************************************************************)
(* Model of mg_start() of LibHTTP (src/src/httplib_start.c): the ordered,   *)
(* fallible startup of a server context, its rollback paths, and the        *)
(* spawning of the master thread and the worker threads.                    *)
(*                                                                          *)
(* Every call of mg_start() is a record call[c] of the calling thread c;    *)
(* the process-wide state is sTlsInit, sTlsKey and thread_idx_max.  The     *)
(* preprocessor configuration of the build is the record build, fixed at    *)
(* process start.  Outcomes of operations that may fail (allocation,        *)
(* pthread_*_init, thread creation, the option collaborators) are chosen    *)
(* nondeterministically.  mg_strdup() of an option string is taken to       *)
(* succeed.                                                                 *)
(***************************************************************************)
EXTENDS Integers, Sequences, FiniteSets, TLC

VARIABLES build, sTlsInit, sTlsKey, thread_idx_max, tls_slot, call

\* the dispatch queue of a running context (classic queue), its master
\* thread, its workers and the thread that stops the context
VARIABLES sq, closed, woken, master_pc, pending, enqueued, dequeued,
          wstate, stop_pc

qvars == <<sq, closed, woken, master_pc, pending, enqueued, dequeued, wstate, stop_pc>>

svars == <<build, sTlsInit, sTlsKey, thread_idx_max, tls_slot, call>>

vars == <<svars, qvars>>

----------------------------------------------------------------------------
(* Bounds of the model *)

\* number of threads of the embedding program that call mg_start()
NumCallers == 2
\* a call of mg_start() begins only while sTlsInit is below this number
MaxCalls == 2
\* number of strings in an option list, the terminating NULL not counted
MaxOptLen == 4
\* worker threads of the running context of the dispatch queue
NumWorkers == 2
\* capacity of the dispatch queue
QueueCap == 2
\* connections the master thread accepts
MaxConns == 3

Callers == 1..NumCallers

----------------------------------------------------------------------------
(* Program constants and tables *)

\* MAX_WORKER_THREADS of libhttp-private.h, scaled down so that every worker
\* count up to and beyond the maximum is explored
MAX_WORKER_THREADS == 2

NULL == "NULL"

\* indices into ctx->config[] used by mg_start()
NUM_THREADS == "num_threads"
DOCUMENT_ROOT == "document_root"

\* config_options[]: the recognized option names with their default values
\* (the default of num_threads is scaled with MAX_WORKER_THREADS)
config_options == [num_threads |-> "2", document_root |-> NULL]

OptionIndices == DOMAIN config_options

\* get_option_index(): the index of a recognized name, -1 otherwise
get_option_index(name) == IF name \in OptionIndices THEN name ELSE "-1"

\* the strings an option list is made of; each may stand at a name or at a
\* value position
Strings == {"num_threads", "document_root", "1", "3"}

\* atoi(): the leading decimal number of the string, 0 when there is none
atoi(s) ==
    CASE s = "1" -> 1
      [] s = "2" -> 2
      [] s = "3" -> 3
      [] OTHER -> 0

RECURSIVE SeqsUpTo(_, _)
SeqsUpTo(S, n) ==
    IF n = 0 THEN {<<>>}
    ELSE LET shorter == SeqsUpTo(S, n - 1)
         IN  shorter \cup {Append(s, x) : s \in {t \in shorter : Len(t) = n - 1}, x \in S}

\* the option lists passed to mg_start(): the strings before the NULL
OptionLists == SeqsUpTo(Strings, MaxOptLen)

\* options[k] of the C array: the terminating NULL follows the last string
At(options, k) == IF k <= Len(options) THEN options[k] ELSE NULL

----------------------------------------------------------------------------
(* The build configuration *)

Builds ==
    [ALTERNATIVE_QUEUE : BOOLEAN, NO_SSL : BOOLEAN, WIN32 : BOOLEAN,
     USE_TIMERS : BOOLEAN, NO_FILES : BOOLEAN]

\* pthread objects initialised at lines 99-104
SyncPrims(b) ==
    IF b.ALTERNATIVE_QUEUE
    THEN {"thread_mutex", "nonce_mutex"}
    ELSE {"thread_mutex", "sq_empty", "sq_full", "nonce_mutex"}

\* CollabOrder with the privilege drop ahead of the port binding
CollabOrder_UidBeforePorts(b) ==
    <<"set_gpass_option">>
    \o (IF b.NO_SSL THEN <<>> ELSE <<"set_ssl_option">>)
    \o (IF b.WIN32 THEN <<>> ELSE <<"set_uid_option">>)
    \o <<"set_ports_option">>
    \o <<"set_acl_option">>

\* the || chain of lines 167-175, left to right
CollabOrder(b) ==
    <<"set_gpass_option">>
    \o (IF b.NO_SSL THEN <<>> ELSE <<"set_ssl_option">>)
    \o <<"set_ports_option">>
    \o (IF b.WIN32 THEN <<>> ELSE <<"set_uid_option">>)
    \o <<"set_acl_option">>

\* resources of a context whose acquisition and release are followed
Resources ==
    {"ctx", "thread_mutex", "sq_empty", "sq_full", "nonce_mutex", "config",
     "workerthreadids", "client_wait_events", "client_socks", "events", "timers"}

----------------------------------------------------------------------------
(* The state of one call *)

IdleCall ==
    [pc |-> "idle", result |-> "none", fail |-> "none",
     gate |-> 0, reg_key |-> "none",
     options |-> <<>>,
     config |-> [o \in OptionIndices |-> NULL],
     acq |-> {}, rel |-> [r \in Resources |-> 0],
     k |-> 1, applied |-> <<>>,
     workerthreadcount |-> 0, cfg_worker_threads |-> 0,
     events |-> {}, init_calls |-> 0,
     master |-> "none", i |-> 0, spawn_log |-> <<>>, workers |-> {}]

\* the dispatch queue of a context whose threads run, nothing accepted yet
QueueInit ==
    /\ sq = <<>>
    /\ closed = FALSE
    /\ woken = {}
    /\ master_pc = "listening"
    /\ pending = 0
    /\ enqueued = <<>>
    /\ dequeued = <<>>
    /\ wstate = [w \in 1..NumWorkers |-> "idle"]
    /\ stop_pc = "running"

Init ==
    /\ QueueInit
    /\ build \in Builds
    /\ sTlsInit = 0
    /\ sTlsKey = "uninitialized"
    /\ thread_idx_max = 0
    /\ tls_slot = [c \in Callers |-> NULL]
    /\ call = [c \in Callers |-> IdleCall]

Set(c, r) == call' = [call EXCEPT ![c] = r]

InProgress(c) == call[c].pc \notin {"idle", "returned"}

----------------------------------------------------------------------------
(* Release of resources *)

\* mg_free(p) and the pthread destroy calls: one more release of res
mg_free(r, res) == [r EXCEPT !.rel[res] = @ + 1]

RECURSIVE FreeAll(_, _)
FreeAll(r, S) ==
    IF S = {} THEN r
    ELSE LET res == CHOOSE x \in S : TRUE
         IN  FreeAll(mg_free(r, res), S \ {res})

\* free_context(): releases everything the context holds a handle of, then
\* the context itself; it neither stops nor joins a thread
free_context(r) == FreeAll(r, r.acq)

\* return NULL of mg_start()
ReturnNull(r, site) == [r EXCEPT !.pc = "returned", !.result = NULL, !.fail = site]

----------------------------------------------------------------------------
(* Lines 57-93: context allocation and the thread-local-storage gate *)

\* line 58: a thread enters mg_start() and allocates the context.  Calls of
\* this specification follow one another: none starts while another runs.
\* The records of the calls that have returned are dropped.
mg_calloc_ctx(c) ==
    /\ call[c].pc \in {"idle", "returned"}
    /\ \A d \in Callers : ~InProgress(d)
    /\ sTlsInit < MaxCalls
    /\ \E ok \in BOOLEAN :
          call' = [d \in Callers |->
                     IF d # c THEN (IF InProgress(d) THEN call[d] ELSE IdleCall)
                     ELSE IF ok THEN [IdleCall EXCEPT !.pc = "tls_gate", !.acq = {"ctx"}]
                     ELSE ReturnNull(IdleCall, "calloc")]
    /\ UNCHANGED <<qvars, build, sTlsInit, sTlsKey, thread_idx_max, tls_slot>>

\* tls_gate that sends every caller to the initialisation
tls_gate_EveryCallerInitialises(c) ==
    /\ call[c].pc = "tls_gate"
    /\ sTlsInit' = sTlsInit + 1
    /\ Set(c, [call[c] EXCEPT !.gate = sTlsInit + 1, !.pc = "key_create"])
    /\ UNCHANGED <<qvars, build, sTlsKey, thread_idx_max, tls_slot>>

\* line 63: mg_atomic_inc(&sTlsInit) == 1 selects the initialising caller;
\* gate is the value the increment returned
tls_gate(c) ==
    /\ call[c].pc = "tls_gate"
    /\ sTlsInit' = sTlsInit + 1
    /\ Set(c, [call[c] EXCEPT !.gate = sTlsInit + 1,
                              !.pc = IF sTlsInit + 1 = 1 THEN "key_create" ELSE "sleep"])
    /\ UNCHANGED <<qvars, build, sTlsKey, thread_idx_max, tls_slot>>

\* lines 73-81: pthread_key_create(); on failure the counter is decremented,
\* the context freed and NULL returned
key_create(c) ==
    /\ call[c].pc = "key_create"
    /\ \E ok \in BOOLEAN :
          IF ok
          THEN /\ sTlsKey' = "created"
               /\ sTlsInit' = sTlsInit
               /\ Set(c, [call[c] EXCEPT !.pc = "register"])
          ELSE /\ sTlsKey' = sTlsKey
               /\ sTlsInit' = sTlsInit - 1
               /\ Set(c, ReturnNull(mg_free(call[c], "ctx"), "tls_key"))
    /\ UNCHANGED <<qvars, build, thread_idx_max, tls_slot>>

\* lines 82-86: a caller that did not get 1 only sleeps
tls_sleep(c) ==
    /\ call[c].pc = "sleep"
    /\ Set(c, [call[c] EXCEPT !.pc = "register"])
    /\ UNCHANGED <<qvars, build, sTlsInit, sTlsKey, thread_idx_max, tls_slot>>

\* lines 88-93: the caller takes a thread index and registers &tls; reg_key
\* is the state of sTlsKey it registers with.  pthread_setspecific() with a
\* key that was not created either stores the value or fails.
register_tls(c) ==
    /\ call[c].pc = "register"
    /\ thread_idx_max' = thread_idx_max + 1
    /\ \/ tls_slot' = [tls_slot EXCEPT ![c] = "tls"]
       \/ sTlsKey = "uninitialized" /\ tls_slot' = tls_slot
    /\ Set(c, [call[c] EXCEPT !.reg_key = sTlsKey, !.pc = "sync_init"])
    /\ UNCHANGED <<qvars, build, sTlsInit, sTlsKey>>

\* lines 99-120: every pthread_*_init() is called, the results are and-ed;
\* on failure only the context memory is freed
sync_init(c) ==
    /\ call[c].pc = "sync_init"
    /\ \E done \in SUBSET SyncPrims(build) :
          LET r == [call[c] EXCEPT !.acq = @ \cup done]
          IN  IF done = SyncPrims(build)
              THEN /\ Set(c, [r EXCEPT !.pc = "parse"])
                   /\ tls_slot' = tls_slot
              ELSE /\ Set(c, ReturnNull(mg_free(r, "ctx"), "sync"))
                   /\ tls_slot' = [tls_slot EXCEPT ![c] = NULL]
    /\ UNCHANGED <<qvars, build, sTlsInit, sTlsKey, thread_idx_max>>

----------------------------------------------------------------------------
(* Lines 126-161: option parsing and defaults *)

\* ParseLoop that skips a name it does not recognize, with its value
RECURSIVE ParseLoop_SkipUnknown(_, _, _)
ParseLoop_SkipUnknown(options, k, config) ==
    LET name == At(options, k)
        idx == get_option_index(name)
        value == At(options, k + 1)
    IN  IF name = NULL THEN [status |-> "ok", config |-> config]
        ELSE IF idx = "-1" THEN ParseLoop_SkipUnknown(options, k + 2, config)
        ELSE IF value = NULL THEN [status |-> "null_value", config |-> config]
        ELSE ParseLoop_SkipUnknown(options, k + 2, [config EXCEPT ![idx] = value])

\* ParseLoop that takes a missing value for the end of the list
RECURSIVE ParseLoop_NullValueEndsList(_, _, _)
ParseLoop_NullValueEndsList(options, k, config) ==
    LET name == At(options, k)
        idx == get_option_index(name)
        value == At(options, k + 1)
    IN  IF name = NULL THEN [status |-> "ok", config |-> config]
        ELSE IF idx = "-1" THEN [status |-> "bad_option", config |-> config]
        ELSE IF value = NULL THEN [status |-> "ok", config |-> config]
        ELSE ParseLoop_NullValueEndsList(options, k + 2, [config EXCEPT ![idx] = value])

\* ParseLoop that keeps the first value of an option given twice
RECURSIVE ParseLoop_KeepFirst(_, _, _)
ParseLoop_KeepFirst(options, k, config) ==
    LET name == At(options, k)
        idx == get_option_index(name)
        value == At(options, k + 1)
    IN  IF name = NULL THEN [status |-> "ok", config |-> config]
        ELSE IF idx = "-1" THEN [status |-> "bad_option", config |-> config]
        ELSE IF value = NULL THEN [status |-> "null_value", config |-> config]
        ELSE ParseLoop_KeepFirst(options, k + 2,
                                 IF config[idx] # NULL THEN config
                                 ELSE [config EXCEPT ![idx] = value])

\* the while loop of lines 126-144 from position k on: the configuration
\* reached and how the loop ended
RECURSIVE ParseLoop(_, _, _)
ParseLoop(options, k, config) ==
    LET name == At(options, k)
        idx == get_option_index(name)
        value == At(options, k + 1)
    IN  IF name = NULL THEN [status |-> "ok", config |-> config]
        ELSE IF idx = "-1" THEN [status |-> "bad_option", config |-> config]
        ELSE IF value = NULL THEN [status |-> "null_value", config |-> config]
        ELSE ParseLoop(options, k + 2, [config EXCEPT ![idx] = value])

\* the strings of ctx->config[] are one resource, held while any is set
HoldsConfig(config) == \E o \in OptionIndices : config[o] # NULL

ParseOptions(c, lists) ==
    /\ call[c].pc = "parse"
    /\ \E options \in lists :
          LET p == ParseLoop(options, 1, call[c].config)
              r == [call[c] EXCEPT !.options = options, !.config = p.config,
                                   !.acq = IF HoldsConfig(p.config)
                                           THEN @ \cup {"config"} ELSE @]
          IN  IF p.status = "ok"
              THEN /\ Set(c, [r EXCEPT !.pc = "defaults"])
                   /\ tls_slot' = tls_slot
              ELSE /\ Set(c, ReturnNull(free_context(r), p.status))
                   /\ tls_slot' = [tls_slot EXCEPT ![c] = NULL]
    /\ UNCHANGED <<qvars, build, sTlsInit, sTlsKey, thread_idx_max>>

\* lines 126-144 for any option list of the bounds
parse_options(c) == ParseOptions(c, OptionLists)

\* lines 146-152
Defaulted(config) ==
    [o \in OptionIndices |->
        IF config[o] = NULL /\ config_options[o] # NULL
        THEN config_options[o] ELSE config[o]]

\* lines 146-163: defaults, then the NO_FILES check of the document root
set_defaults(c) ==
    /\ call[c].pc = "defaults"
    /\ LET config == Defaulted(call[c].config)
           r == [call[c] EXCEPT !.config = config,
                                !.acq = IF HoldsConfig(config)
                                        THEN @ \cup {"config"} ELSE @]
       IN  IF build.NO_FILES /\ config[DOCUMENT_ROOT] # NULL
           THEN /\ Set(c, ReturnNull(free_context(r), "no_files"))
                /\ tls_slot' = [tls_slot EXCEPT ![c] = NULL]
           ELSE /\ Set(c, [r EXCEPT !.pc = "collab", !.k = 1])
                /\ tls_slot' = tls_slot
    /\ UNCHANGED <<qvars, build, sTlsInit, sTlsKey, thread_idx_max>>

----------------------------------------------------------------------------
(* Lines 165-179: the option collaborators *)

\* apply_option that goes on after a collaborator returned false
apply_option_IgnoreResult(c) ==
    /\ call[c].pc = "collab"
    /\ \E ok \in BOOLEAN :
          LET order == CollabOrder(build)
              r == [call[c] EXCEPT !.applied = Append(@, <<order[call[c].k], ok>>)]
          IN  Set(c, IF call[c].k < Len(order)
                     THEN [r EXCEPT !.k = @ + 1]
                     ELSE [r EXCEPT !.pc = "count"])
    /\ UNCHANGED <<qvars, build, sTlsInit, sTlsKey, thread_idx_max, tls_slot>>

\* one operand of the || chain: the k-th collaborator is called; false ends
\* the chain and the start
apply_option(c) ==
    /\ call[c].pc = "collab"
    /\ \E ok \in BOOLEAN :
          LET order == CollabOrder(build)
              r == [call[c] EXCEPT !.applied = Append(@, <<order[call[c].k], ok>>)]
          IN  IF ~ok
              THEN /\ Set(c, ReturnNull(free_context(r), "collab"))
                   /\ tls_slot' = [tls_slot EXCEPT ![c] = NULL]
              ELSE /\ Set(c, IF call[c].k < Len(order)
                             THEN [r EXCEPT !.k = @ + 1]
                             ELSE [r EXCEPT !.pc = "count"])
                   /\ tls_slot' = tls_slot
    /\ UNCHANGED <<qvars, build, sTlsInit, sTlsKey, thread_idx_max>>

----------------------------------------------------------------------------
(* Lines 187-246: worker count, worker arrays, timers *)

\* the step after the worker arrays: timers_init() exists with USE_TIMERS
AfterArrays(b) == IF b.USE_TIMERS THEN "timers" ELSE "init_context"

\* check_worker_count that clamps a count above the maximum
check_worker_count_Clamp(c) ==
    /\ call[c].pc = "count"
    /\ LET m == atoi(call[c].config[NUM_THREADS])
           n == IF m > MAX_WORKER_THREADS THEN MAX_WORKER_THREADS ELSE m
       IN  Set(c, [call[c] EXCEPT !.workerthreadcount = n,
                                  !.pc = IF n > 0 THEN "alloc_ids"
                                         ELSE AfterArrays(build)])
    /\ UNCHANGED <<qvars, build, sTlsInit, sTlsKey, thread_idx_max, tls_slot>>

\* lines 187-196: atoi() of the configured count and the check against
\* MAX_WORKER_THREADS
check_worker_count(c) ==
    /\ call[c].pc = "count"
    /\ LET n == atoi(call[c].config[NUM_THREADS])
           r == [call[c] EXCEPT !.workerthreadcount = n]
       IN  IF n > MAX_WORKER_THREADS
           THEN /\ Set(c, ReturnNull(free_context(r), "too_many"))
                /\ tls_slot' = [tls_slot EXCEPT ![c] = NULL]
           ELSE /\ Set(c, [r EXCEPT !.pc = IF n > 0 THEN "alloc_ids"
                                           ELSE AfterArrays(build)])
                /\ tls_slot' = tls_slot
    /\ UNCHANGED <<qvars, build, sTlsInit, sTlsKey, thread_idx_max>>

\* lines 197-205: cfg_worker_threads is set and workerthreadids allocated
alloc_workerthreadids(c) ==
    /\ call[c].pc = "alloc_ids"
    /\ \E ok \in BOOLEAN :
          LET r == [call[c] EXCEPT !.cfg_worker_threads = call[c].workerthreadcount]
          IN  IF ~ok
              THEN /\ Set(c, ReturnNull(free_context(r), "ids_alloc"))
                   /\ tls_slot' = [tls_slot EXCEPT ![c] = NULL]
              ELSE /\ Set(c, [r EXCEPT !.acq = @ \cup {"workerthreadids"},
                                       !.pc = IF build.ALTERNATIVE_QUEUE
                                              THEN "alloc_queue"
                                              ELSE AfterArrays(build)])
                   /\ tls_slot' = tls_slot
    /\ UNCHANGED <<qvars, build, sTlsInit, sTlsKey, thread_idx_max>>

\* lines 207-236 (ALTERNATIVE_QUEUE): client_wait_events, client_socks and
\* the event of every worker.  Line 220 tests client_wait_events a second
\* time, so a failed client_socks allocation goes on; a failed
\* event_create() is only logged.
alloc_alternative_queue(c) ==
    /\ call[c].pc = "alloc_queue"
    /\ \E wait_ok \in BOOLEAN :
          IF ~wait_ok
          THEN /\ Set(c, ReturnNull(free_context(mg_free(call[c], "workerthreadids")),
                                    "events_alloc"))
               /\ tls_slot' = [tls_slot EXCEPT ![c] = NULL]
          ELSE \E socks_ok \in BOOLEAN,
                  created \in SUBSET (0..(call[c].cfg_worker_threads - 1)) :
                  /\ Set(c, [call[c] EXCEPT
                                !.acq = @ \cup {"client_wait_events"}
                                          \cup (IF socks_ok THEN {"client_socks"} ELSE {})
                                          \cup (IF created # {} THEN {"events"} ELSE {}),
                                !.events = created,
                                !.pc = AfterArrays(build)])
                  /\ tls_slot' = tls_slot
    /\ UNCHANGED <<qvars, build, sTlsInit, sTlsKey, thread_idx_max>>

\* lines 239-246 (USE_TIMERS)
timers_init(c) ==
    /\ call[c].pc = "timers"
    /\ \E ok \in BOOLEAN :
          IF ~ok
          THEN /\ Set(c, ReturnNull(free_context(call[c]), "timers"))
               /\ tls_slot' = [tls_slot EXCEPT ![c] = NULL]
          ELSE /\ Set(c, [call[c] EXCEPT !.acq = @ \cup {"timers"},
                                         !.pc = "init_context"])
               /\ tls_slot' = tls_slot
    /\ UNCHANGED <<qvars, build, sTlsInit, sTlsKey, thread_idx_max>>

----------------------------------------------------------------------------
(* Lines 248-295: the init callback and the threads *)

\* lines 248-253: the init_context callback is called when the callbacks
\* argument has one (given)
init_context(c) ==
    /\ call[c].pc = "init_context"
    /\ \E given \in BOOLEAN :
          Set(c, [call[c] EXCEPT !.init_calls = IF given THEN @ + 1 ELSE @,
                                 !.pc = "start_master"])
    /\ UNCHANGED <<qvars, build, sTlsInit, sTlsKey, thread_idx_max, tls_slot>>

\* line 256: mg_start_thread_with_id(master_thread, ...); its result is not
\* looked at
start_master(c) ==
    /\ call[c].pc = "start_master"
    /\ \E started \in BOOLEAN :
          Set(c, [call[c] EXCEPT !.master = IF started THEN "running" ELSE "none",
                                 !.i = 0, !.pc = "workers"])
    /\ UNCHANGED <<qvars, build, sTlsInit, sTlsKey, thread_idx_max, tls_slot>>

\* start_worker for which the failure of any worker is fatal
start_worker_AnyFailureFatal(c) ==
    /\ call[c].pc = "workers"
    /\ call[c].i < call[c].cfg_worker_threads
    /\ \E started \in BOOLEAN :
          LET r == [call[c] EXCEPT !.spawn_log = Append(@, started)]
          IN  IF started
              THEN /\ Set(c, [r EXCEPT !.workers = @ \cup {call[c].i}, !.i = @ + 1])
                   /\ tls_slot' = tls_slot
              ELSE /\ Set(c, ReturnNull(free_context(r), "first_worker"))
                   /\ tls_slot' = [tls_slot EXCEPT ![c] = NULL]
    /\ UNCHANGED <<qvars, build, sTlsInit, sTlsKey, thread_idx_max>>

\* lines 259-292: one pass of the worker loop.  started is FALSE when
\* mg_malloc() of the thread arguments or the thread creation failed
start_worker(c) ==
    /\ call[c].pc = "workers"
    /\ call[c].i < call[c].cfg_worker_threads
    /\ \E started \in BOOLEAN :
          LET r == [call[c] EXCEPT !.spawn_log = Append(@, started)]
          IN  IF started
              THEN /\ Set(c, [r EXCEPT !.workers = @ \cup {call[c].i}, !.i = @ + 1])
                   /\ tls_slot' = tls_slot
              ELSE IF call[c].i > 0
              THEN /\ Set(c, [r EXCEPT !.pc = "return"])
                   /\ tls_slot' = tls_slot
              ELSE /\ Set(c, ReturnNull(free_context(r), "first_worker"))
                   /\ tls_slot' = [tls_slot EXCEPT ![c] = NULL]
    /\ UNCHANGED <<qvars, build, sTlsInit, sTlsKey, thread_idx_max>>

\* mg_start_return that leaves the thread-local slot as it is
mg_start_return_KeepSlot(c) ==
    /\ \/ call[c].pc = "return"
       \/ call[c].pc = "workers" /\ call[c].i >= call[c].cfg_worker_threads
    /\ Set(c, [call[c] EXCEPT !.pc = "returned", !.result = "ctx"])
    /\ UNCHANGED <<qvars, build, sTlsInit, sTlsKey, thread_idx_max, tls_slot>>

\* lines 294-295: the loop is over or was left by break
mg_start_return(c) ==
    /\ \/ call[c].pc = "return"
       \/ call[c].pc = "workers" /\ call[c].i >= call[c].cfg_worker_threads
    /\ Set(c, [call[c] EXCEPT !.pc = "returned", !.result = "ctx"])
    /\ tls_slot' = [tls_slot EXCEPT ![c] = NULL]
    /\ UNCHANGED <<qvars, build, sTlsInit, sTlsKey, thread_idx_max>>

----------------------------------------------------------------------------

Next ==
    \E c \in Callers :
        \/ mg_calloc_ctx(c)
        \/ tls_gate(c)
        \/ key_create(c)
        \/ tls_sleep(c)
        \/ register_tls(c)
        \/ sync_init(c)
        \/ parse_options(c)
        \/ set_defaults(c)
        \/ apply_option(c)
        \/ check_worker_count(c)
        \/ alloc_workerthreadids(c)
        \/ alloc_alternative_queue(c)
        \/ timers_init(c)
        \/ init_context(c)
        \/ start_master(c)
        \/ start_worker(c)
        \/ mg_start_return(c)

Spec == Init /\ [][Next]_vars

----------------------------------------------------------------------------
(* Concurrent calls of mg_start() *)

\* Threads that are in mg_start() at the same time share sTlsInit, sTlsKey
\* and thread_idx_max, which lines 63-93 read and write; the rest of a call
\* works on its own context.  The concurrent calls are given an option list
\* that ends them at line 131, after the shared state was used.
ConcurrentOptionLists == {<<"1">>}

\* the builds differ before line 131 in the synchronization objects only
InitConcurrent ==
    /\ Init
    /\ ~build.NO_SSL /\ ~build.WIN32 /\ ~build.USE_TIMERS /\ ~build.NO_FILES

\* line 58 with no condition on the other threads: they may be anywhere in
\* mg_start()
mg_calloc_ctx_concurrent(c) ==
    /\ call[c].pc \in {"idle", "returned"}
    /\ sTlsInit < MaxCalls
    /\ \E ok \in BOOLEAN :
          Set(c, IF ok THEN [IdleCall EXCEPT !.pc = "tls_gate", !.acq = {"ctx"}]
                 ELSE ReturnNull(IdleCall, "calloc"))
    /\ UNCHANGED <<qvars, build, sTlsInit, sTlsKey, thread_idx_max, tls_slot>>

\* lines 126-144 for the option lists of the concurrent calls
parse_options_concurrent(c) == ParseOptions(c, ConcurrentOptionLists)

NextConcurrent ==
    \E c \in Callers :
        \/ mg_calloc_ctx_concurrent(c)
        \/ tls_gate(c)
        \/ key_create(c)
        \/ tls_sleep(c)
        \/ register_tls(c)
        \/ sync_init(c)
        \/ parse_options_concurrent(c)

SpecConcurrent == InitConcurrent /\ [][NextConcurrent]_vars

----------------------------------------------------------------------------
(* The classic dispatch queue (Variant A), the master thread, the workers   *)
(* and the stop of a running context.  One mutex guards the queue, so every *)
(* operation on it is one step.  A thread that waits on a condition goes on *)
(* once it is in woken.                                                      *)

Workers == 1..NumWorkers

\* the master thread, among the threads that wait on a condition
Master == 0

WaitingWorkers == {w \in Workers : wstate[w] = "waiting"}

\* the threads blocked in enqueue or dequeue
Blocked == WaitingWorkers \cup (IF master_pc = "blocked" THEN {Master} ELSE {})

\* master thread: a connection is accepted and is to be enqueued
accept ==
    /\ master_pc = "listening"
    /\ ~closed
    /\ Len(enqueued) + (IF pending # 0 THEN 1 ELSE 0) < MaxConns
    /\ pending' = Len(enqueued) + 1
    /\ master_pc' = "enqueue"
    /\ UNCHANGED <<sq, closed, woken, enqueued, dequeued, wstate, stop_pc, svars>>

\* master thread: it stops accepting once the shutdown is signalled
master_stop ==
    /\ master_pc = "listening"
    /\ closed
    /\ master_pc' = "stopped"
    /\ UNCHANGED <<sq, closed, woken, pending, enqueued, dequeued, wstate, stop_pc, svars>>

\* enqueue that stores the connection in a full buffer over the oldest one
enqueue_OverwriteWhenFull ==
    /\ master_pc = "enqueue"
    /\ IF closed
       THEN /\ master_pc' = "stopped"
            /\ pending' = 0
            /\ UNCHANGED <<sq, enqueued, woken>>
       ELSE /\ sq' = Append(IF Len(sq) < QueueCap THEN sq ELSE Tail(sq), pending)
            /\ enqueued' = Append(enqueued, pending)
            /\ pending' = 0
            /\ master_pc' = "listening"
            /\ \/ WaitingWorkers \ woken = {} /\ woken' = woken
               \/ \E w \in WaitingWorkers \ woken : woken' = woken \cup {w}
    /\ UNCHANGED <<closed, dequeued, wstate, stop_pc, svars>>

\* enqueue(connection): queue closed ends the master's loop; a full buffer
\* blocks the master on "not full"; otherwise the connection is appended and
\* "not empty" is signalled to one waiting worker
enqueue ==
    /\ master_pc = "enqueue"
    /\ IF closed
       THEN /\ master_pc' = "stopped"
            /\ pending' = 0
            /\ UNCHANGED <<sq, enqueued, woken>>
       ELSE IF Len(sq) >= QueueCap
       THEN /\ master_pc' = "blocked"
            /\ UNCHANGED <<sq, enqueued, woken, pending>>
       ELSE /\ sq' = Append(sq, pending)
            /\ enqueued' = Append(enqueued, pending)
            /\ pending' = 0
            /\ master_pc' = "listening"
            /\ \/ WaitingWorkers \ woken = {} /\ woken' = woken
               \/ \E w \in WaitingWorkers \ woken : woken' = woken \cup {w}
    /\ UNCHANGED <<closed, dequeued, wstate, stop_pc, svars>>

\* the master blocked on "not full" was woken and tries again
enqueue_wake ==
    /\ master_pc = "blocked"
    /\ Master \in woken
    /\ woken' = woken \ {Master}
    /\ master_pc' = "enqueue"
    /\ UNCHANGED <<sq, closed, pending, enqueued, dequeued, wstate, stop_pc, svars>>

\* dequeue that hands out the newest connection of the buffer
dequeue_TakeNewest(w) ==
    /\ wstate[w] = "idle"
    /\ IF closed
       THEN /\ wstate' = [wstate EXCEPT ![w] = "exited"]
            /\ UNCHANGED <<sq, dequeued, woken>>
       ELSE IF sq = <<>>
       THEN /\ wstate' = [wstate EXCEPT ![w] = "waiting"]
            /\ UNCHANGED <<sq, dequeued, woken>>
       ELSE /\ sq' = SubSeq(sq, 1, Len(sq) - 1)
            /\ dequeued' = Append(dequeued, <<w, sq[Len(sq)]>>)
            /\ wstate' = [wstate EXCEPT ![w] = "processing"]
            /\ woken' = IF master_pc = "blocked" THEN woken \cup {Master} ELSE woken
    /\ UNCHANGED <<closed, master_pc, pending, enqueued, stop_pc, svars>>

\* dequeue() of worker w: queue closed makes the worker exit; an empty
\* buffer blocks it on "not empty"; otherwise the oldest connection becomes
\* the worker's and "not full" is signalled
dequeue(w) ==
    /\ wstate[w] = "idle"
    /\ IF closed
       THEN /\ wstate' = [wstate EXCEPT ![w] = "exited"]
            /\ UNCHANGED <<sq, dequeued, woken>>
       ELSE IF sq = <<>>
       THEN /\ wstate' = [wstate EXCEPT ![w] = "waiting"]
            /\ UNCHANGED <<sq, dequeued, woken>>
       ELSE /\ sq' = Tail(sq)
            /\ dequeued' = Append(dequeued, <<w, Head(sq)>>)
            /\ wstate' = [wstate EXCEPT ![w] = "processing"]
            /\ woken' = IF master_pc = "blocked" THEN woken \cup {Master} ELSE woken
    /\ UNCHANGED <<closed, master_pc, pending, enqueued, stop_pc, svars>>

\* worker w blocked on "not empty" was woken and tries again
dequeue_wake(w) ==
    /\ wstate[w] = "waiting"
    /\ w \in woken
    /\ woken' = woken \ {w}
    /\ wstate' = [wstate EXCEPT ![w] = "idle"]
    /\ UNCHANGED <<sq, closed, master_pc, pending, enqueued, dequeued, stop_pc, svars>>

\* worker w has processed its connection and is ready for the next
process(w) ==
    /\ wstate[w] = "processing"
    /\ wstate' = [wstate EXCEPT ![w] = "idle"]
    /\ UNCHANGED <<sq, closed, woken, master_pc, pending, enqueued, dequeued, stop_pc, svars>>

\* shutdown that wakes one blocked thread only
shutdown_WakeOne ==
    /\ closed' = TRUE
    /\ \/ Blocked = {} /\ woken' = woken
       \/ \E t \in Blocked : woken' = woken \cup {t}

\* shutdown(): the queue is closed for good and every blocked caller is woken
shutdown ==
    /\ closed' = TRUE
    /\ woken' = woken \cup Blocked

\* stop(context): the state becomes stopping, the master is signalled, the
\* queue is shut down; then the threads are joined
stop ==
    /\ stop_pc = "running"
    /\ shutdown
    /\ stop_pc' = "join_master"
    /\ UNCHANGED <<sq, master_pc, pending, enqueued, dequeued, wstate, svars>>

\* stop(context): the master thread is joined
join_master ==
    /\ stop_pc = "join_master"
    /\ master_pc = "stopped"
    /\ stop_pc' = "join_workers"
    /\ UNCHANGED <<sq, closed, woken, master_pc, pending, enqueued, dequeued, wstate, svars>>

\* stop(context): every worker thread is joined, then the context released
join_workers ==
    /\ stop_pc = "join_workers"
    /\ \A w \in Workers : wstate[w] = "exited"
    /\ stop_pc' = "done"
    /\ UNCHANGED <<sq, closed, woken, master_pc, pending, enqueued, dequeued, wstate, svars>>

MasterStep == accept \/ master_stop \/ enqueue \/ enqueue_wake

WorkerStep(w) == dequeue(w) \/ dequeue_wake(w) \/ process(w)

StopStep == join_master \/ join_workers

NextQueue ==
    \/ accept
    \/ master_stop
    \/ enqueue
    \/ enqueue_wake
    \/ \E w \in Workers : dequeue(w)
    \/ \E w \in Workers : dequeue_wake(w)
    \/ \E w \in Workers : process(w)
    \/ stop
    \/ join_master
    \/ join_workers

\* a running context of the classic-queue build; no call of mg_start() runs
InitQueue ==
    /\ QueueInit
    /\ build = [ALTERNATIVE_QUEUE |-> FALSE, NO_SSL |-> FALSE, WIN32 |-> FALSE,
                USE_TIMERS |-> FALSE, NO_FILES |-> FALSE]
    /\ sTlsInit = 1
    /\ sTlsKey = "created"
    /\ thread_idx_max = 1
    /\ tls_slot = [c \in Callers |-> NULL]
    /\ call = [c \in Callers |-> IdleCall]

\* the threads are scheduled: a thread that can take a step takes one
SpecQueue ==
    /\ InitQueue
    /\ [][NextQueue]_vars
    /\ WF_vars(MasterStep)
    /\ \A w \in Workers : WF_vars(WorkerStep(w))
    /\ WF_vars(StopStep)

----------------------------------------------------------------------------
(* Properties *)

Returned(c) == call[c].pc = "returned"

Failed(c) == Returned(c) /\ call[c].result = NULL

Succeeded(c) == Returned(c) /\ call[c].result = "ctx"

\* no thread spawned by the call is running
NoThread(c) == call[c].master # "running" /\ call[c].workers = {}

\* C1: when the spawn of the first worker (index 0) fails, start returns
\* failure and no thread of the call, the master included, is running.
C1_FirstWorkerFailureLeavesNoThread ==
    \A c \in Callers :
        (Returned(c) /\ call[c].spawn_log = <<FALSE>>) => (Failed(c) /\ NoThread(c))

\* C2: a context is freed only when no thread spawned for it is running.
C2_ContextFreedOnlyWithoutThreads ==
    \A c \in Callers : call[c].rel["ctx"] > 0 => NoThread(c)

\* C3: when the first worker spawn succeeds and every later attempt fails,
\* start succeeds and exactly one worker, that of index 0, is live.
C3_OnlyFirstWorkerSpawned ==
    \A c \in Callers :
        LET log == call[c].spawn_log
        IN  (/\ Returned(c)
             /\ Len(log) >= 1
             /\ log[1]
             /\ \A j \in 2..Len(log) : ~log[j])
            => (/\ Succeeded(c)
                /\ call[c].workers = {0}
                /\ Cardinality(call[c].workers) = 1)

C3_Witness ==
    \E c \in Callers :
        /\ Succeeded(c)
        /\ call[c].cfg_worker_threads = 2
        /\ call[c].spawn_log = <<TRUE, FALSE>>

\* C4: whenever start returns a context the master thread is running.
C4_SuccessImpliesMasterRunning ==
    \A c \in Callers : Succeeded(c) => call[c].master = "running"

\* a string at a name position (1, 3, ...) that is no recognized option
HasBadName(options) ==
    \E k \in 1..Len(options) : k % 2 = 1 /\ get_option_index(options[k]) = "-1"

\* C5: an option list with an unrecognized option name makes start fail
\* with no thread spawned, whatever pairs stand before or after the name.
C5_UnknownOptionFails ==
    \A c \in Callers :
        HasBadName(call[c].options)
        => (Failed(c) /\ call[c].fail = "bad_option" /\ NoThread(c))

C5_Witness ==
    \E c \in Callers :
        /\ Failed(c)
        /\ Len(call[c].options) = 4
        /\ get_option_index(call[c].options[1]) # "-1"
        /\ get_option_index(call[c].options[3]) = "-1"

\* the list ends right after a recognized name
EndsWithUnpairedName(options) ==
    /\ Len(options) % 2 = 1
    /\ get_option_index(options[Len(options)]) # "-1"

\* C6: an option list whose last recognized name is followed by the list
\* terminator makes start fail with no thread spawned.
C6_UnpairedNameFails ==
    \A c \in Callers :
        EndsWithUnpairedName(call[c].options) => (Failed(c) /\ NoThread(c))

C6_Witness ==
    \E c \in Callers :
        /\ Failed(c)
        /\ call[c].fail = "null_value"
        /\ Len(call[c].options) = 3

\* the steps of a call after the worker-count check has passed
PastCountCheck ==
    {"alloc_ids", "alloc_queue", "timers", "init_context", "start_master",
     "workers", "return"}

\* C7: a requested worker count above MAX_WORKER_THREADS makes start fail
\* with no thread spawned and the count not clamped; the workers of a call
\* never number more than MAX_WORKER_THREADS.
C7_TooManyWorkersRejected ==
    \A c \in Callers :
        /\ call[c].workerthreadcount > MAX_WORKER_THREADS
           => (/\ Failed(c)
               /\ call[c].fail = "too_many"
               /\ call[c].cfg_worker_threads = 0
               /\ NoThread(c))
        /\ (call[c].pc \in PastCountCheck \/ Succeeded(c))
           => atoi(call[c].config[NUM_THREADS]) <= MAX_WORKER_THREADS
        /\ call[c].cfg_worker_threads <= MAX_WORKER_THREADS
        /\ Cardinality(call[c].workers) <= MAX_WORKER_THREADS

C7_Witness ==
    \E c \in Callers :
        /\ Failed(c)
        /\ call[c].fail = "too_many"
        /\ call[c].workerthreadcount = MAX_WORKER_THREADS + 1

\* the documented order: credential file, TLS, ports, privilege drop, ACL
Rank(name) ==
    CASE name = "set_gpass_option" -> 1
      [] name = "set_ssl_option" -> 2
      [] name = "set_ports_option" -> 3
      [] name = "set_uid_option" -> 4
      [] name = "set_acl_option" -> 5

Collaborators ==
    {"set_gpass_option", "set_ssl_option", "set_ports_option", "set_uid_option",
     "set_acl_option"}

\* the collaborator is part of the build
Compiled(b, name) ==
    /\ name = "set_ssl_option" => ~b.NO_SSL
    /\ name = "set_uid_option" => ~b.WIN32

C9_CollaboratorFailureIsFatal ==
    \A c \in Callers :
        (\E j \in 1..Len(call[c].applied) : ~call[c].applied[j][2])
        => (/\ Failed(c)
            /\ call[c].fail = "collab"
            /\ call[c].init_calls = 0
            /\ NoThread(c)
            /\ call[c].spawn_log = <<>>)

C9_Witness ==
    \E c \in Callers :
        /\ Failed(c)
        /\ Len(call[c].applied) >= 3
        /\ call[c].applied[Len(call[c].applied)] = <<"set_ports_option", FALSE>>

\* C10: on a failing return every resource the call acquired has been
\* released exactly once.
C10_FailureReleasesEverythingOnce ==
    \A c \in Callers :
        Failed(c)
        => \A res \in Resources :
              call[c].rel[res] = IF res \in call[c].acq THEN 1 ELSE 0

\* the worker arrays of the ALTERNATIVE_QUEUE build that a call with workers
\* needs: the handle list, the event array, the socket-slot array and one
\* event for every worker
ArraysComplete(c) ==
    /\ {"workerthreadids", "client_wait_events", "client_socks"} \subseteq call[c].acq
    /\ call[c].events = 0..(call[c].cfg_worker_threads - 1)

\* the steps of a call after the worker arrays were allocated
PastArrays == {"timers", "init_context", "start_master", "workers", "return", "returned"}

\* C11: in the ALTERNATIVE_QUEUE build, when the allocation of the handle
\* list, the event array, the socket-slot array or one worker event fails,
\* start returns failure and spawns no thread.
C11_AltQueueAllocFailureSpawnsNoThread ==
    \A c \in Callers :
        (/\ build.ALTERNATIVE_QUEUE
         /\ call[c].cfg_worker_threads > 0
         /\ call[c].pc \in PastArrays
         /\ ~ArraysComplete(c))
        => (NoThread(c) /\ (Returned(c) => Failed(c)))

\* the strings after which option o is given in the list
ValuePositions(options, o) ==
    {k \in 1..Len(options) : k % 2 = 0 /\ options[k - 1] = o}

\* the value the configuration is to hold for option o
ExpectedValue(options, o) ==
    LET P == ValuePositions(options, o)
    IN  IF P = {} THEN config_options[o]
        ELSE options[CHOOSE k \in P : \A h \in P : h <= k]

\* the steps of a call after the defaults were set
PastDefaults == {"collab", "count"} \cup PastCountCheck

AllApplied(c) ==
    \A n \in Collaborators :
        Compiled(build, n) => \E j \in 1..Len(call[c].applied) : call[c].applied[j] = <<n, TRUE>>

\* C18: the init callback is invoked at most once per start, only after
\* option parsing, every collaborator, the worker-count check and the
\* allocation of the worker arrays have succeeded.  (The action init_context
\* is the only one that invokes it, and it precedes start_master.)
C18_InitCallbackAfterSetup ==
    \A c \in Callers :
        /\ call[c].init_calls <= 1
        /\ call[c].init_calls = 1
           => (/\ ~HasBadName(call[c].options)
               /\ Len(call[c].options) % 2 = 0
               /\ AllApplied(c)
               /\ call[c].workerthreadcount <= MAX_WORKER_THREADS
               /\ call[c].cfg_worker_threads > 0
                  => (/\ "workerthreadids" \in call[c].acq
                      /\ build.ALTERNATIVE_QUEUE => ArraysComplete(c)))

\* C19: whenever start returns a context at least one worker is running.
C19_SuccessImpliesWorkerRunning ==
    \A c \in Callers : Succeeded(c) => call[c].workers # {}

\* the steps of a call after the caller registered its descriptor
PastRegister ==
    {"sync_init", "parse", "defaults", "collab", "count"} \cup PastCountCheck

\* C20: when start has returned, with success or with a failure, the
\* thread-local slot of the calling thread does not refer to the descriptor
\* of start's stack frame any more; the slot refers to it only between the
\* registration and the return.
C20_SlotClearedOnReturn ==
    \A c \in Callers :
        /\ Returned(c) => tls_slot[c] = NULL
        /\ tls_slot[c] # NULL => call[c].pc \in PastRegister

C20_Witness ==
    \E c \in Callers :
        /\ Succeeded(c)
        /\ call[c].workers # {}
        /\ tls_slot[c] = NULL

\* C12: over concurrent and sequential calls the thread-local key is
\* created at most once, and only a caller whose increment of sTlsInit
\* returned 1 runs the initialisation.
C12_KeyCreatedAtMostOnce ==
    /\ [](\A c \in Callers : call[c].pc = "key_create" => call[c].gate = 1)
    /\ [](Cardinality({c \in Callers : call[c].pc = "key_create"}) <= 1)
    /\ [][\A c \in Callers :
            (call[c].pc = "key_create" /\ call'[c].pc = "register")
            => (sTlsKey = "uninitialized" /\ sTlsKey' = "created")]_vars

\* two callers have passed the gate and the key exists
C12_Witness ==
    \E c, d \in Callers :
        /\ call[c].gate = 1
        /\ call[d].gate = 2
        /\ InProgress(c) /\ InProgress(d)
        /\ sTlsKey = "created"

\* C13: a caller whose increment of sTlsInit returned a value other than 1
\* registers its identity only once the key has been created.
C13_LoserRegistersAfterInitialisation ==
    \A c \in Callers :
        call[c].gate > 1 => call[c].reg_key # "uninitialized"

\* the connections of the dequeue log, in the order of the dequeues
RECURSIVE Conns(_)
Conns(log) == IF log = <<>> THEN <<>> ELSE <<log[1][2]>> \o Conns(Tail(log))

\* C15: the classic queue is strictly FIFO: the connections are dequeued in
\* the order in which they were enqueued, each by exactly one worker.
C15_QueueIsFifo ==
    /\ Len(dequeued) <= Len(enqueued)
    /\ Conns(dequeued) = SubSeq(enqueued, 1, Len(dequeued))
    /\ \A i, j \in 1..Len(dequeued) : dequeued[i][2] = dequeued[j][2] => i = j

\* two workers have dequeued, each its own connection
C15_Witness ==
    /\ Len(dequeued) = MaxConns
    /\ \E i, j \in 1..Len(dequeued) : dequeued[i][1] # dequeued[j][1]

\* C16: the classic queue never holds more than QueueCap connections and
\* never drops or overwrites one: what was enqueued is what was dequeued
\* followed by what the buffer holds, and the connection of a blocked enqueue
\* is not in the buffer before a dequeue has made room.
C16_QueueBoundedAndLossless ==
    /\ Len(sq) <= QueueCap
    /\ enqueued = Conns(dequeued) \o sq
    /\ Len(enqueued) <= Len(dequeued) + QueueCap
    /\ master_pc = "blocked"
       => (/\ pending # 0
           /\ \A i \in 1..Len(enqueued) : enqueued[i] # pending)

\* the enqueue after QueueCap connections is blocked, no worker has dequeued
C16_Witness ==
    /\ master_pc = "blocked"
    /\ Len(sq) = QueueCap
    /\ dequeued = <<>>
    /\ pending = QueueCap + 1

AllExited == \A w \in Workers : wstate[w] = "exited"

\* C17: when stop is called, all workers blocked in dequeue included, every
\* worker eventually gets the queue-closed outcome and exits, and stop
\* completes only after all of them have exited.
C17_ShutdownWakesAllWorkers ==
    /\ [](stop_pc = "done" => AllExited)
    /\ (stop_pc # "running") ~> AllExited
    /\ (stop_pc # "running") ~> (stop_pc = "done")

\* stop was called while every worker was blocked in dequeue
C17_Witness ==
    /\ stop_pc = "join_master"
    /\ closed
    /\ \A w \in Workers : wstate[w] = "waiting" /\ w \in woken

====
